---- MODULE Spec2Model ----
(***************************************************************************)
(* A model of the JSON-RPC peer of src/src/index.ts: the table of pending  *)
(* requests, the dispatcher (exec), the handler adapter and the minimal    *)
(* stream surface (write, push, pipe).                                     *)
(*                                                                         *)
(* JavaScript runs the peer on one thread.  One action of the model is one *)
(* synchronous run of code: a call of the public API together with all the *)
(* listeners it triggers, or the continuation that runs when a handler's   *)
(* promise settles (with the promise callbacks chained on it).  Callbacks  *)
(* deferred by process.nextTick are actions of their own.                  *)
(***************************************************************************)
EXTENDS Integers, Sequences, FiniteSets, TLC

\* ------------------------------------------------------------------------
\* Bounds of the model
\* ------------------------------------------------------------------------

\* number of calls of request() in a behaviour
MaxRequests == 2

\* number of calls of exec that are unfinished at the same time, for two piped peers
MaxLive == 2

\* longest batch handed to exec()/write()
MaxBatch == 2

\* number of pipes into one peer in a behaviour
MaxPipes == 2

\* ------------------------------------------------------------------------
\* Values
\* ------------------------------------------------------------------------

Peers == {"client", "server"}

\* no pipe target / no deferred found
None == "none"

Undefined == "undefined"
Null == "null"

\* a value JSON.stringify throws on (an array that contains itself)
Circular == "circular"

\* the id of a payload that has none (null or absent)
NoId == -1

\* what _getDeferred returns when the table has no entry under the id (undefined)
NoDeferred == -1

\* ids a remote peer gives to the requests it sends
RemoteIds == {10, 11}

Methods == {"foo"}

\* parameters carried by requests and notifications
Params == {"p1"}

\* results carried by responses
Values == {"v1", "v2"}

\* reasons given to failPendingRequests
Reasons == {"closed"}

\* ------------------------------------------------------------------------
\* Errors and payloads
\* ------------------------------------------------------------------------

NoError == [class |-> None, message |-> Undefined, code |-> 0, data |-> Undefined]

\* new JsonRpcError(message, code, data)
JsonRpcError(message, code, data) ==
    [class |-> "JsonRpcError", message |-> message, code |-> code, data |-> data]

\* new MethodNotFound(method): code -32601, data is the method name
MethodNotFound(method) ==
    [class   |-> "MethodNotFound",
     message |-> IF method = Undefined THEN "method not found"
                 ELSE "method not found: " \o method,
     code    |-> -32601,
     data    |-> method]

\* error instanceof MethodNotFound
IsMethodNotFound(error) == error.class = "MethodNotFound"

\* !error.data : undefined and the empty string are falsy
NoData(error) == error.data \in {Undefined, Null, ""}

NoPayload ==
    [type |-> None, id |-> NoId, method |-> Undefined, params |-> Undefined,
     result |-> Undefined, error |-> NoError]

\* format.request(id, method, params)
FormatRequest(id, method, params) ==
    [NoPayload EXCEPT !.type = "request", !.id = id, !.method = method, !.params = params]

\* format.notification(method, params)
FormatNotification(method, params) ==
    [NoPayload EXCEPT !.type = "notification", !.method = method, !.params = params]

\* format.response(id, result) throws when result cannot be serialised
CanFormat(result) == result # Circular

FormatResponse(id, result) ==
    [NoPayload EXCEPT !.type = "response", !.id = id, !.result = result]

\* format.error(id, error): the payload carries message, code and data, not the class
FormatError(id, error) ==
    [NoPayload EXCEPT !.type = "error", !.id = id,
                      !.error = [class |-> "object", message |-> error.message,
                                 code |-> error.code, data |-> error.data]]

\* what parse throws for text that is not a JSON-RPC message
InvalidJson ==
    [class |-> "InvalidJson", message |-> "invalid JSON", code |-> -32700, data |-> Undefined]

\* What a promise of exec is rejected with: an error object, or the Error
\* payload that parseMessage throws.
NoReason == [thrown |-> None, payload |-> NoPayload]

ThrownError(name) == [thrown |-> name, payload |-> NoPayload]

ThrownPayload(payload) == [thrown |-> "payload", payload |-> payload]

\* ------------------------------------------------------------------------
\* What is written to a peer, what a peer pushes
\* ------------------------------------------------------------------------

\* a single message
Single(payload) == [kind |-> "payload", items |-> <<payload>>]

\* a batch: the text of a JSON array of messages, or the array itself
Array(payloads) == [kind |-> "array", items |-> payloads]

\* the array of replies that exec returns for a batch
List(replies) == [kind |-> "list", items |-> replies]

\* text that is not a JSON-RPC message
Malformed == [kind |-> "malformed", items |-> <<>>]

\* the value undefined, as the result of exec
NoValue == [kind |-> Undefined, items |-> <<>>]

\* String(args[0]) in write: text stays as it is; the array of replies of a
\* batch is joined with commas, which is the text of a message only when the
\* array has one element
StringOf(datum) ==
    IF datum.kind = "list"
    THEN IF Len(datum.items) = 1 THEN Single(datum.items[1]) ELSE Malformed
    ELSE datum

\* ------------------------------------------------------------------------
\* State
\* ------------------------------------------------------------------------

VARIABLES
    nextRequestId,  \* the counter shared by all peers, as an offset from its first value
    deferreds,      \* deferreds[p]: the table _deferreds of peer p, key -> future
    futures,        \* futures[f]: the promise returned by the request that took id f
    execs,          \* the calls of exec that are unfinished or finished in the last step
    out,            \* out[p]: the chunks peer p emitted as 'data' events in the last step
    errors,         \* errors[p]: the values peer p emitted as 'error' events in the last step
    pipes,          \* pipes[p]: the targets of the calls of p.pipe that are subscribed, in order
    ended           \* ended[p]: the number of calls of p.end() so far

vars == <<nextRequestId, deferreds, futures, execs, out, errors, pipes, ended>>

\* nothing emitted
Quiet == [p \in Peers |-> <<>>]

\* A call of exec is unfinished while its promise is pending, while one of the
\* handlers it called runs, and while write has its rejection to emit.
IsLive(e) ==
    \/ e.status = "pending"
    \/ e.viaWrite /\ e.status = "rejected" /\ ~e.emitted
    \/ \E j \in 1..Len(e.elems) : e.elems[j].hstate = "running"

Live(es) == SelectSeq(es, IsLive)

\* the place of call k among the unfinished calls
LiveIndex(k) == Cardinality({i \in 1..k : IsLive(execs[i])})

\* what a synchronous run of code starts from, reads and writes
State == [deferreds |-> deferreds, futures |-> futures, execs |-> Live(execs), out |-> Quiet]

\* the state S that a run of code ends in becomes the next state (S is bound
\* as a value, so that it is computed once)
Commit(S) ==
    \E T \in {S} :
        /\ deferreds' = T.deferreds
        /\ futures' = T.futures
        /\ execs' = T.execs
        /\ out' = T.out

\* ------------------------------------------------------------------------
\* The table of pending requests
\* ------------------------------------------------------------------------

\* new Promise((resolve, reject) => ...) in request
NewFuture(p) ==
    [peer |-> p, state |-> "pending", value |-> Undefined, error |-> NoError, by |-> NoPayload]

\* resolve / reject of a promise: only the first call has an effect
Resolve(futs, f, value, by) ==
    IF futs[f].state = "pending"
    THEN [futs EXCEPT ![f] = [@ EXCEPT !.state = "resolved", !.value = value, !.by = by]]
    ELSE futs

Reject(futs, f, value, error, by) ==
    IF futs[f].state = "pending"
    THEN [futs EXCEPT ![f] = [@ EXCEPT !.state = "rejected", !.value = value,
                                       !.error = error, !.by = by]]
    ELSE futs

\* a lookup that takes the oldest entry of the table, whatever the id asked for
GetDeferredOldest(table, id) ==
    LET oldest == CHOOSE k \in DOMAIN table : \A l \in DOMAIN table : k <= l
    IN  IF DOMAIN table = {}
        THEN [deferred |-> NoDeferred, table |-> table]
        ELSE [deferred |-> table[oldest],
              table    |-> [k \in DOMAIN table \ {oldest} |-> table[k]]]

\* a lookup that leaves the entry in the table
GetDeferredKeep(table, id) ==
    [deferred |-> IF id \in DOMAIN table THEN table[id] ELSE NoDeferred,
     table    |-> table]

\* _getDeferred(id): the entry under id (NoDeferred when there is none), and the table without it
GetDeferred(table, id) ==
    [deferred |-> IF id \in DOMAIN table THEN table[id] ELSE NoDeferred,
     table    |-> [k \in DOMAIN table \ {id} |-> table[k]]]

\* ------------------------------------------------------------------------
\* exec
\* ------------------------------------------------------------------------

\* One element of a call of exec: the message itself, or an element of a batch.
\*   hstate  the handler call: None (not called), "running", "returned", "threw"
\*   rstate  the promise of exec for this element: "waiting" (on the handler),
\*           Undefined (resolved with undefined), "payload" (resolved with reply),
\*           "TypeError" / "EncodeError" (rejected)
\*   hcalls  the number of calls of the handler made for the element
\*   hdata   the second argument of the call of the handler
\*   nth     the handler settled as the nth of the handlers of the call (0: not yet)
Elem(payload, hstate, rstate) ==
    [payload |-> payload, hstate |-> hstate, hcalls |-> 0, hdata |-> Undefined,
     hvalue |-> Undefined, herror |-> NoError, nth |-> 0, rstate |-> rstate,
     reply |-> NoPayload]

\* a call of the handler that is not given the data
HandleWithoutData(payload, data, rstate) ==
    [Elem(payload, "running", rstate) EXCEPT !.hcalls = 1]

\* a dispatcher that calls the handler a second time
HandleTwice(payload, data, rstate) ==
    [Elem(payload, "running", rstate) EXCEPT !.hdata = data, !.hcalls = 2]

\* this._handle(messagePayload, data): the handler runs, called with the
\* payload and the data
Handle(payload, data, rstate) ==
    [Elem(payload, "running", rstate) EXCEPT !.hdata = data, !.hcalls = 1]

\* the synchronous part of exec for one payload: the new state and the element
DispatchOne(S, p, payload, data) ==
    LET d == GetDeferred(S.deferreds[p], payload.id)
        taken == [S EXCEPT !.deferreds[p] = d.table]
    IN  CASE payload.type = "error" ->
               IF payload.id = NoId
               THEN [state |-> S, elem |-> Elem(payload, None, Undefined)]
               ELSE IF d.deferred = NoDeferred
               THEN [state |-> taken, elem |-> Elem(payload, None, "TypeError")]
               ELSE [state |-> [taken EXCEPT !.futures =
                                   Reject(@, d.deferred, Undefined,
                                          JsonRpcError(payload.error.message,
                                                       payload.error.code,
                                                       payload.error.data),
                                          payload)],
                     elem  |-> Elem(payload, None, Undefined)]
          [] payload.type = "response" ->
               IF d.deferred = NoDeferred
               THEN [state |-> taken, elem |-> Elem(payload, None, "TypeError")]
               ELSE [state |-> [taken EXCEPT !.futures =
                                   Resolve(@, d.deferred, payload.result, payload)],
                     elem  |-> Elem(payload, None, Undefined)]
          [] payload.type = "notification" ->
               [state |-> S, elem |-> Handle(payload, data, Undefined)]
          [] OTHER ->
               [state |-> S, elem |-> Handle(payload, data, "waiting")]

\* messagePayload.map(payload => this.exec(payload, data)): the elements in order
RECURSIVE DispatchAll(_, _, _, _, _)
DispatchAll(S, p, payloads, data, elems) ==
    IF payloads = <<>>
    THEN [state |-> S, elems |-> elems]
    ELSE LET d == DispatchOne(S, p, Head(payloads), data)
         IN  DispatchAll(d.state, p, Tail(payloads), data, Append(elems, d.elem))

\* a dispatcher in which no call of exec for a payload is rejected
NeverRejected(elem) == FALSE

\* the promise of exec for the element is rejected
Rejected(elem) == elem.rstate \in {"TypeError", "EncodeError"}

\* results collected in the order in which the elements settle
ResultsAsSettled(elems) ==
    LET upTo[n \in 0..Len(elems)] ==
            IF n = 0 THEN <<>>
            ELSE LET js == {j \in 1..Len(elems) :
                              elems[j].nth = n /\ elems[j].rstate = "payload"}
                 IN  IF js = {} THEN upTo[n - 1]
                     ELSE Append(upTo[n - 1], elems[CHOOSE j \in js : TRUE].reply)
    IN  upTo[Len(elems)]

\* .filter(result => result !== undefined)
RECURSIVE Results(_)
Results(elems) ==
    IF elems = <<>> THEN <<>>
    ELSE IF Head(elems).rstate = "payload"
         THEN <<Head(elems).reply>> \o Results(Tail(elems))
         ELSE Results(Tail(elems))

\* the first element whose promise is rejected, in the order of the batch
FirstRejected(elems) ==
    LET j == CHOOSE j \in 1..Len(elems) :
                 /\ Rejected(elems[j])
                 /\ \A i \in 1..(j - 1) : ~Rejected(elems[i])
    IN  elems[j].rstate

\* a batch whose result is made of the replies there are, without waiting
SettledWithoutJoin(input, elems) ==
    IF \E j \in 1..Len(elems) : Rejected(elems[j])
    THEN [status |-> "rejected", value |-> NoValue, reason |-> ThrownError(FirstRejected(elems))]
    ELSE IF input.kind = "array"
    THEN [status |-> "fulfilled", value |-> List(Results(elems)), reason |-> NoReason]
    ELSE IF elems[1].rstate = "waiting"
    THEN [status |-> "pending", value |-> NoValue, reason |-> NoReason]
    ELSE IF elems[1].rstate = "payload"
    THEN [status |-> "fulfilled", value |-> Single(elems[1].reply), reason |-> NoReason]
    ELSE [status |-> "fulfilled", value |-> NoValue, reason |-> NoReason]

\* the promise of a call of exec whose elements are elems, none settled before
Settled(input, elems) ==
    IF \E j \in 1..Len(elems) : Rejected(elems[j])
    THEN [status |-> "rejected", value |-> NoValue, reason |-> ThrownError(FirstRejected(elems))]
    ELSE IF \E j \in 1..Len(elems) : elems[j].rstate = "waiting"
    THEN [status |-> "pending", value |-> NoValue, reason |-> NoReason]
    ELSE IF input.kind = "array"
    THEN [status |-> "fulfilled", value |-> List(Results(elems)), reason |-> NoReason]
    ELSE IF elems[1].rstate = "payload"
    THEN [status |-> "fulfilled", value |-> Single(elems[1].reply), reason |-> NoReason]
    ELSE [status |-> "fulfilled", value |-> NoValue, reason |-> NoReason]

ExecRecord(p, viaWrite, input, data, elems, settled) ==
    [peer |-> p, viaWrite |-> viaWrite, input |-> input, data |-> data, elems |-> elems,
     status |-> settled.status, value |-> settled.value, reason |-> settled.reason,
     emitted |-> FALSE]

\* a parseMessage that lets the error of parse through
ParseMessageRethrow(input) ==
    IF input.kind = "malformed"
    THEN [ok |-> FALSE, thrown |-> ThrownError("InvalidJson")]
    ELSE [ok |-> TRUE, thrown |-> NoReason]

\* parseMessage(message): the payloads of the message, or the id-less Error
\* payload thrown in place of the error of parse
ParseMessage(input) ==
    IF input.kind = "malformed"
    THEN [ok |-> FALSE, thrown |-> ThrownPayload(FormatError(NoId, InvalidJson))]
    ELSE [ok |-> TRUE, thrown |-> NoReason]

\* exec(message) up to its first await; viaWrite tells that write made the call
Exec(S, p, input, data, viaWrite) ==
    IF ~ParseMessage(input).ok
    THEN [S EXCEPT !.execs = Append(@,
            ExecRecord(p, viaWrite, input, data, <<>>,
                       [status |-> "rejected", value |-> NoValue,
                        reason |-> ParseMessage(input).thrown]))]
    ELSE LET d == DispatchAll(S, p, input.items, data, <<>>)
         IN  [d.state EXCEPT !.execs = Append(@,
                ExecRecord(p, viaWrite, input, data, d.elems, Settled(input, d.elems)))]

\* ------------------------------------------------------------------------
\* write, push, pipe
\* ------------------------------------------------------------------------

\* a write that takes nothing while a call of exec of the peer is pending
ReceiveWhenFree(S, q, chunk) ==
    IF \E k \in 1..Len(S.execs) : S.execs[k].peer = q /\ S.execs[k].status = "pending"
    THEN S
    ELSE Exec(S, q, StringOf(chunk), Undefined, TRUE)

\* write(chunk) of the peer q that a chunk is piped into.  The text of a chunk
\* is one message or no message at all, never a batch, so this call of exec is
\* not fulfilled with a response before write returns: the callback of write
\* has nothing to push in this run.
Receive(S, q, chunk) == Exec(S, q, StringOf(chunk), Undefined, TRUE)

\* emit('data', chunk): the 'data' listeners of the pipes, in the order in
\* which they subscribed
RECURSIVE Forward(_, _, _)
Forward(S, targets, chunk) ==
    IF targets = <<>> THEN S
    ELSE Forward(Receive(S, Head(targets), chunk), Tail(targets), chunk)

\* push(chunk) for a chunk that is not null: emit 'data'
Push(S, p, chunk) ==
    Forward([S EXCEPT !.out[p] = Append(@, chunk)], pipes[p], chunk)

\* a callback that pushes nothing
Dropped(S, call) == S

\* the callback write chains on the promise of exec, run when call is fulfilled:
\* push the response unless it is undefined
Fulfilled(S, call) ==
    IF call.viaWrite /\ call.status = "fulfilled" /\ call.value.kind # Undefined
    THEN Push(S, call.peer, call.value)
    ELSE S

\* write(data): exec(String(data)) with the callbacks chained on its promise
Write(S, p, data) ==
    LET T == Exec(S, p, StringOf(data), Undefined, TRUE)
    IN  Fulfilled(T, T.execs[Len(T.execs)])

\* ------------------------------------------------------------------------
\* Actions
\* ------------------------------------------------------------------------

Init ==
    /\ nextRequestId = 0
    /\ deferreds = [p \in Peers |-> <<>>]
    /\ futures = <<>>
    /\ execs = <<>>
    /\ out = Quiet
    /\ errors = Quiet
    /\ pipes = [p \in Peers |-> <<>>]
    /\ ended = [p \in Peers |-> 0]

\* a counter that is not incremented
SameId(counter) == counter

\* nextRequestId++ : the value of the counter after the call
Incremented(counter) == counter + 1

\* A 'data' listener of the peer that answers a request at once: it writes
\* answer to the peer before it returns (NoPayload: there is no such listener).
Listen(S, p, answer) ==
    IF answer = NoPayload THEN S ELSE Write(S, p, Single(answer))

\* a request that emits the payload before it registers the entry
RequestedEmitFirst(S, p, requestId, method, params, answer) ==
    LET emitted == Listen(Push(S, p, Single(FormatRequest(requestId, method, params))),
                          p, answer)
    IN  [emitted EXCEPT !.futures = (requestId :> NewFuture(p)) @@ @,
                        !.deferreds[p] = (requestId :> requestId) @@ @]

\* The run of request(method, params) on p with the id requestId: the entry
\* is registered, then the payload is pushed, which runs the listeners.
Requested(S, p, requestId, method, params, answer) ==
    LET registered == [S EXCEPT
                         !.futures = (requestId :> NewFuture(p)) @@ @,
                         !.deferreds[p] = (requestId :> requestId) @@ @]
    IN  Listen(Push(registered, p, Single(FormatRequest(requestId, method, params))),
               p, answer)

\* p.request(method, params)
Request(p, method, params) ==
    /\ nextRequestId < MaxRequests
    /\ Commit(Requested(State, p, nextRequestId, method, params, NoPayload))
    /\ nextRequestId' = Incremented(nextRequestId)
    /\ errors' = Quiet
    /\ UNCHANGED <<pipes, ended>>

\* p.request(method, params) on a peer with a listener that answers at once
RequestAnswered(p, method, params, answer) ==
    /\ nextRequestId < MaxRequests
    /\ answer # NoPayload
    /\ Commit(Requested(State, p, nextRequestId, method, params, answer))
    /\ nextRequestId' = Incremented(nextRequestId)
    /\ errors' = Quiet
    /\ UNCHANGED <<pipes, ended>>

\* what makes the emission of a request throw: format.request cannot encode
\* the parameters, or a 'data' listener of the peer throws
Causes == {"format", "listener"}

\* the error thrown inside the executor of the promise of request
EmitFailure(cause) ==
    [class |-> IF cause = "format" THEN "TypeError" ELSE "Error",
     message |-> cause, code |-> 0, data |-> Undefined]

\* The run of request(method, params) on p when the emission throws: the entry
\* is registered; for a listener that throws, the chunk is emitted and the
\* listeners subscribed before it have run; the throw leaves the executor and
\* rejects the promise of the request, and nothing removes the entry.
RequestedThrows(S, p, requestId, method, params, cause) ==
    LET registered == [S EXCEPT
                         !.futures = (requestId :> NewFuture(p)) @@ @,
                         !.deferreds[p] = (requestId :> requestId) @@ @]
        emitted == IF cause = "format" THEN registered
                   ELSE Push(registered, p, Single(FormatRequest(requestId, method, params)))
    IN  [emitted EXCEPT !.futures =
            Reject(@, requestId, Undefined, EmitFailure(cause), NoPayload)]

\* p.request(method, params) whose emission throws
RequestThrows(p, method, params, cause) ==
    /\ nextRequestId < MaxRequests
    /\ Commit(RequestedThrows(State, p, nextRequestId, method, params, cause))
    /\ nextRequestId' = Incremented(nextRequestId)
    /\ errors' = Quiet
    /\ UNCHANGED <<pipes, ended>>

\* a notify that registers an entry, as request does
NotifyRegistered(p, method, params) ==
    /\ Commit(Push([State EXCEPT !.futures = (nextRequestId :> NewFuture(p)) @@ @,
                                 !.deferreds[p] = (nextRequestId :> nextRequestId) @@ @],
                   p, Single(FormatNotification(method, params))))
    /\ errors' = Quiet
    /\ UNCHANGED <<nextRequestId, pipes, ended>>

\* p.notify(method, params)
Notify(p, method, params) ==
    /\ Commit(Push(State, p, Single(FormatNotification(method, params))))
    /\ errors' = Quiet
    /\ UNCHANGED <<nextRequestId, pipes, ended>>

\* p.failPendingRequests(reason): the keys in the order of Object.keys; the
\* rejections are independent of each other, so the order has no effect
\* a loop that stops after the first key
RejectFirst(futs, table, reason) ==
    IF DOMAIN table = {}
    THEN futs
    ELSE LET id == CHOOSE k \in DOMAIN table : \A l \in DOMAIN table : k <= l
         IN  Reject(futs, table[id], reason, NoError, NoPayload)

RECURSIVE RejectAll(_, _, _)
RejectAll(futs, table, reason) ==
    IF DOMAIN table = {}
    THEN futs
    ELSE LET id == CHOOSE k \in DOMAIN table : \A l \in DOMAIN table : k <= l
         IN  RejectAll(Reject(futs, table[id], reason, NoError, NoPayload),
                       [k \in DOMAIN table \ {id} |-> table[k]], reason)

\* a failPendingRequests that leaves the entries in the table
FailPendingRequestsKeep(p, reason) ==
    /\ Commit([State EXCEPT !.futures = RejectAll(@, deferreds[p], reason)])
    /\ errors' = Quiet
    /\ UNCHANGED <<nextRequestId, pipes, ended>>

FailPendingRequests(p, reason) ==
    /\ Commit([State EXCEPT !.futures = RejectAll(@, deferreds[p], reason),
                            !.deferreds[p] = <<>>])
    /\ errors' = Quiet
    /\ UNCHANGED <<nextRequestId, pipes, ended>>

\* p.write(input), called by a transport
CallWrite(p, input) ==
    /\ Commit(Write(State, p, input))
    /\ errors' = Quiet
    /\ UNCHANGED <<nextRequestId, pipes, ended>>

\* p.exec(input, data), called directly
CallExecWith(p, input, data) ==
    /\ Commit(Exec(State, p, input, data, FALSE))
    /\ errors' = Quiet
    /\ UNCHANGED <<nextRequestId, pipes, ended>>

\* p.exec(input): the data is undefined
CallExec(p, input) == CallExecWith(p, input, Undefined)

\* a reply that carries the error as thrown
ErrorReplyAsThrown(payload, error) == FormatError(payload.id, error)

\* the reply of exec to a request whose handler threw error
ErrorReply(payload, error) ==
    FormatError(payload.id,
                IF IsMethodNotFound(error) /\ NoData(error)
                THEN MethodNotFound(payload.method)
                ELSE error)

\* an exec that replies to whatever the handler was called for
ResumeAlways(elem, returned, value, error, nth) ==
    LET settled == [elem EXCEPT !.hstate = IF returned THEN "returned" ELSE "threw",
                                !.hvalue = value, !.herror = error, !.nth = nth]
        result == IF value = Undefined THEN Null ELSE value
    IN  IF ~returned
        THEN [settled EXCEPT !.rstate = "payload", !.reply = ErrorReply(elem.payload, error)]
        ELSE IF CanFormat(result)
        THEN [settled EXCEPT !.rstate = "payload",
                             !.reply = FormatResponse(elem.payload.id, result)]
        ELSE [settled EXCEPT !.rstate = "EncodeError"]

\* an exec that passes the result of the handler on as it is
ResumeAsIs(elem, returned, value, error, nth) ==
    LET settled == [elem EXCEPT !.hstate = IF returned THEN "returned" ELSE "threw",
                                !.hvalue = value, !.herror = error, !.nth = nth]
    IN  IF elem.rstate # "waiting" THEN settled
        ELSE IF ~returned
        THEN [settled EXCEPT !.rstate = "payload", !.reply = ErrorReply(elem.payload, error)]
        ELSE IF CanFormat(value)
        THEN [settled EXCEPT !.rstate = "payload",
                             !.reply = FormatResponse(elem.payload.id, value)]
        ELSE [settled EXCEPT !.rstate = "EncodeError"]

\* an exec that answers with a null result when the result cannot be encoded
ResumeEncodeNull(elem, returned, value, error, nth) ==
    LET settled == [elem EXCEPT !.hstate = IF returned THEN "returned" ELSE "threw",
                                !.hvalue = value, !.herror = error, !.nth = nth]
        result == IF value = Undefined \/ ~CanFormat(value) THEN Null ELSE value
    IN  IF elem.rstate # "waiting" THEN settled
        ELSE IF ~returned
        THEN [settled EXCEPT !.rstate = "payload", !.reply = ErrorReply(elem.payload, error)]
        ELSE [settled EXCEPT !.rstate = "payload",
                             !.reply = FormatResponse(elem.payload.id, result)]

\* an exec that lets the error of the handler through
ResumeRethrows(elem, returned, value, error, nth) ==
    LET settled == [elem EXCEPT !.hstate = IF returned THEN "returned" ELSE "threw",
                                !.hvalue = value, !.herror = error, !.nth = nth]
        result == IF value = Undefined THEN Null ELSE value
    IN  IF elem.rstate # "waiting" THEN settled
        ELSE IF ~returned
        THEN [settled EXCEPT !.rstate = "TypeError"]
        ELSE IF CanFormat(result)
        THEN [settled EXCEPT !.rstate = "payload",
                             !.reply = FormatResponse(elem.payload.id, result)]
        ELSE [settled EXCEPT !.rstate = "EncodeError"]

\* an exec that gives no reply when the handler returned nothing
ResumeNoReply(elem, returned, value, error, nth) ==
    LET settled == [elem EXCEPT !.hstate = IF returned THEN "returned" ELSE "threw",
                                !.hvalue = value, !.herror = error, !.nth = nth]
    IN  IF elem.rstate # "waiting" THEN settled
        ELSE IF ~returned
        THEN [settled EXCEPT !.rstate = "payload", !.reply = ErrorReply(elem.payload, error)]
        ELSE IF value = Undefined
        THEN [settled EXCEPT !.rstate = Undefined]
        ELSE IF CanFormat(value)
        THEN [settled EXCEPT !.rstate = "payload",
                             !.reply = FormatResponse(elem.payload.id, value)]
        ELSE [settled EXCEPT !.rstate = "EncodeError"]

\* the element once its handler has settled, as the nth of its call: exec resumes
\* after the await of a request; the outcome of the handler of a notification
\* is dropped
Resume(elem, returned, value, error, nth) ==
    LET settled == [elem EXCEPT !.hstate = IF returned THEN "returned" ELSE "threw",
                                !.hvalue = value, !.herror = error, !.nth = nth]
        result == IF value = Undefined THEN Null ELSE value
    IN  IF elem.rstate # "waiting" THEN settled
        ELSE IF ~returned
        THEN [settled EXCEPT !.rstate = "payload", !.reply = ErrorReply(elem.payload, error)]
        ELSE IF CanFormat(result)
        THEN [settled EXCEPT !.rstate = "payload",
                             !.reply = FormatResponse(elem.payload.id, result)]
        ELSE [settled EXCEPT !.rstate = "EncodeError"]

\* the call e of exec once the handler of its element j has settled: the promise
\* of a batch is rejected by the first element that is, and fulfilled with the
\* last element that is
Resumed(e, j, returned, value, error) ==
    LET nth == 1 + Cardinality({i \in 1..Len(e.elems) : e.elems[i].nth > 0})
        elems == [e.elems EXCEPT ![j] = Resume(@, returned, value, error, nth)]
        settled == IF e.status # "pending"
                   THEN [status |-> e.status, value |-> e.value, reason |-> e.reason]
                   ELSE IF Rejected(elems[j])
                   THEN [status |-> "rejected", value |-> NoValue,
                         reason |-> ThrownError(elems[j].rstate)]
                   ELSE Settled(e.input, elems)
    IN  [e EXCEPT !.elems = elems, !.status = settled.status,
                  !.value = settled.value, !.reason = settled.reason]

\* The handler called for element j of call k settles.  For a request, exec
\* resumes; when that settles the promise of the call and write made the call,
\* the callback of write pushes the response.
HandlerSettles(k, j, returned, value, error) ==
    /\ execs[k].elems[j].hstate = "running"
    /\ \E call \in {Resumed(execs[k], j, returned, value, error)} :
       \E T \in {[State EXCEPT !.execs[LiveIndex(k)] = call]} :
           IF execs[k].status = "pending" THEN Commit(Fulfilled(T, call)) ELSE Commit(T)
    /\ errors' = Quiet
    /\ UNCHANGED <<nextRequestId, pipes, ended>>

HandlerReturns(k, j, value) == HandlerSettles(k, j, TRUE, value, NoError)

HandlerThrows(k, j, error) == HandlerSettles(k, j, FALSE, Undefined, error)

\* makeAsync(fn): the promise of a call is resolved with what fn returns, which
\* settles it as the promise fn returned is settled, and rejected with what fn
\* throws
MakeAsync(outcome) ==
    [returned |-> outcome.kind \in {"return", "resolve"},
     value    |-> outcome.value,
     error    |-> outcome.error]

\* the user handler called for element j of call k completes with outcome: it
\* returns a value or throws, or the promise it returned is resolved or rejected
HandlerCompletes(k, j, outcome) ==
    \E o \in {MakeAsync(outcome)} : HandlerSettles(k, j, o.returned, o.value, o.error)

\* a handler that ignores every message
IgnoreAll(payload) == [returned |-> TRUE, value |-> Undefined, error |-> NoError]

\* defaultOnMessage(message): throws MethodNotFound for a request, ignores a
\* notification
DefaultOnMessage(payload) ==
    IF payload.type = "request"
    THEN [returned |-> FALSE, value |-> Undefined, error |-> MethodNotFound(payload.method)]
    ELSE [returned |-> TRUE, value |-> Undefined, error |-> NoError]

\* the promise of makeAsync(defaultOnMessage) for element j of call k settles
DefaultHandlerSettles(k, j) ==
    \E o \in {DefaultOnMessage(execs[k].elems[j].payload)} :
        HandlerSettles(k, j, o.returned, o.value, o.error)

\* a pipe that returns the peer it was called on
PipeCallReturnsThis(P, p, q) == [pipes |-> [P EXCEPT ![p] = Append(@, q)], result |-> p]

\* p.pipe(q): subscribe the listeners and return q
PipeCall(P, p, q) == [pipes |-> [P EXCEPT ![p] = Append(@, q)], result |-> q]

Pipe(p, q) ==
    /\ pipes' = PipeCall(pipes, p, q).pipes
    /\ out' = Quiet
    /\ errors' = Quiet
    /\ execs' = Live(execs)
    /\ UNCHANGED <<nextRequestId, deferreds, futures, ended>>

\* p.pipe(q).pipe(p): the second call is made on what the first returns
PipeBoth(p, q) ==
    /\ \E first \in {PipeCall(pipes, p, q)} :
           pipes' = PipeCall(first.pipes, first.result, p).pipes
    /\ out' = Quiet
    /\ errors' = Quiet
    /\ execs' = Live(execs)
    /\ UNCHANGED <<nextRequestId, deferreds, futures, ended>>

\* the number of listeners among targets that belong to a pipe into q
Into(targets, q) == Cardinality({j \in 1..Len(targets) : targets[j] = q})

\* an end() that passes the end on: the target emits 'end' in its turn
EndPropagates(p) ==
    LET reached == {q \in Peers : Into(pipes[p], q) > 0}
    IN  /\ pipes' = [q \in Peers |-> IF q = p \/ q \in reached THEN <<>> ELSE pipes[q]]
        /\ ended' = [q \in Peers |->
                        ended[q] + Into(pipes[p], q)
                        + Cardinality({rj \in {<<r, j>> : r \in reached \ {p}, j \in 1..MaxPipes} :
                                          /\ rj[2] <= Len(pipes[rj[1]])
                                          /\ pipes[rj[1]][rj[2]] = q})]
        /\ out' = Quiet
        /\ errors' = Quiet
        /\ execs' = Live(execs)
        /\ UNCHANGED <<nextRequestId, deferreds, futures>>

\* p.push(null): emit 'end'; the 'end' listener of every pipe removes the two
\* listeners of its pipe and calls end() on its target, which writes nothing
\* as it is given no data
End(p) ==
    /\ pipes' = [pipes EXCEPT ![p] = <<>>]
    /\ ended' = [q \in Peers |-> ended[q] + Into(pipes[p], q)]
    /\ out' = Quiet
    /\ errors' = Quiet
    /\ execs' = Live(execs)
    /\ UNCHANGED <<nextRequestId, deferreds, futures>>

\* an end() that fails the pending requests of the peer
CallEndFails(p) ==
    /\ ended' = [ended EXCEPT ![p] = @ + 1]
    /\ Commit([State EXCEPT !.futures = RejectAll(@, deferreds[p], Undefined),
                            !.deferreds[p] = <<>>])
    /\ errors' = Quiet
    /\ UNCHANGED <<nextRequestId, pipes>>

\* p.end() or p.end(cb), called by a transport: no data is given, so nothing
\* is written; the callback, if any, is left to process.nextTick
CallEnd(p) ==
    /\ ended' = [ended EXCEPT ![p] = @ + 1]
    /\ Commit(State)
    /\ errors' = Quiet
    /\ UNCHANGED <<nextRequestId, pipes>>

\* the callback _asyncEmitError of write, run by process.nextTick: emit('error', reason)
EmitError(k) ==
    /\ execs[k].viaWrite
    /\ execs[k].status = "rejected"
    /\ ~execs[k].emitted
    /\ errors' = [Quiet EXCEPT ![execs[k].peer] = <<execs[k].reason>>]
    /\ Commit([State EXCEPT !.execs[LiveIndex(k)].emitted = TRUE])
    /\ UNCHANGED <<nextRequestId, pipes, ended>>

\* ------------------------------------------------------------------------
\* The environment
\* ------------------------------------------------------------------------

\* the errors a remote peer sends, the errors a handler throws
RemoteErrors == {JsonRpcError("remote failure", 1, "d1")}

HandlerErrors ==
    {MethodNotFound(Undefined), MethodNotFound("bar"), JsonRpcError("failure", 2, Undefined)}

\* the values a handler returns
HandlerValues == {"v1", Undefined, Circular}

\* the ids of the responses and errors a remote peer sends: those request()
\* hands out in a behaviour, each of them also before it is handed out and
\* after its entry is gone
ReplyIds == 0..(MaxRequests - 1)

\* the responses and errors received from outside
Replies ==
    {FormatResponse(i, v) : i \in ReplyIds, v \in Values}
    \cup {FormatError(i, e) : i \in ReplyIds, e \in RemoteErrors}

\* what a listener that answers at once writes for the request with id i
Answers(i) ==
    {FormatResponse(i, v) : v \in Values} \cup {FormatError(i, e) : e \in RemoteErrors}

\* no call of exec is in the state: the transport hands over one message at a
\* time, when the call for the message before has finished and been forgotten
Idle == execs = <<>>

\* The finished calls of exec leave the state: their promises are settled, their
\* handlers have settled and nothing is left to emit for them.
Forget ==
    /\ execs # Live(execs)
    /\ execs' = Live(execs)
    /\ out' = Quiet
    /\ errors' = Quiet
    /\ UNCHANGED <<nextRequestId, deferreds, futures, pipes, ended>>

\* the handlers that run
Running == {kj \in {<<k, j>> : k \in 1..Len(execs), j \in 1..MaxBatch} :
               /\ kj[2] <= Len(execs[kj[1]].elems)
               /\ execs[kj[1]].elems[kj[2]].hstate = "running"}

\* A requester: requests are sent, the transport delivers responses and errors
\* in any order, for any id, and the pending requests are failed at any time.
Next ==
    \/ \E p \in Peers, m \in Methods, a \in Params : Request(p, m, a)
    \/ \E p \in Peers, m \in Methods, a \in Params, x \in Answers(nextRequestId) :
           RequestAnswered(p, m, a, x)
    \/ \E p \in Peers, r \in Reasons : FailPendingRequests(p, r)
    \/ \E p \in Peers, x \in Replies : Idle /\ CallWrite(p, Single(x))
    \/ \E p \in Peers, x \in Replies : Idle /\ CallExec(p, Single(x))
    \/ \E k \in 1..Len(execs) : EmitError(k)
    \/ Forget

Spec == Init /\ [][Next]_vars

\* the messages a responder receives: requests and notifications, and the
\* replies, matched or not, that come with them in a batch
Payloads ==
    {FormatRequest(i, m, a) : i \in RemoteIds, m \in Methods, a \in Params}
    \cup {FormatNotification(m, a) : m \in Methods, a \in Params}
    \cup {FormatResponse(0, "v1")}
    \cup {FormatError(i, e) : i \in {0, NoId}, e \in RemoteErrors}

RECURSIVE Batches(_)
Batches(n) ==
    IF n = 0 THEN {<<>>}
    ELSE LET shorter == Batches(n - 1)
         IN  shorter \cup {Append(b, x) : b \in {c \in shorter : Len(c) = n - 1}, x \in Payloads}

Inputs ==
    {Single(x) : x \in Payloads} \cup {Array(b) : b \in Batches(MaxBatch)} \cup {Malformed}

\* A responder: the transport hands over single messages and batches, one at a
\* time, the handlers settle in any order; the peer also makes a request, the
\* one for which the messages carry replies.
NextDispatch ==
    \/ \E m \in Methods, a \in Params : Idle /\ nextRequestId = 0 /\ Request("server", m, a)
    \/ \E i \in Inputs : Idle /\ CallWrite("server", i)
    \/ \E i \in Inputs : Idle /\ CallExec("server", i)
    \/ \E kj \in Running, v \in HandlerValues : HandlerReturns(kj[1], kj[2], v)
    \/ \E kj \in Running, e \in HandlerErrors : HandlerThrows(kj[1], kj[2], e)
    \/ \E k \in 1..Len(execs) : EmitError(k)
    \/ Forget

SpecDispatch == Init /\ [][NextDispatch]_vars

\* the methods asked of a peer that has no handler of its own
AskedMethods == {"foo", "bar"}

\* the requests and notifications such a peer receives
Asked ==
    {FormatRequest(i, m, a) : i \in RemoteIds, m \in AskedMethods, a \in Params}
    \cup {FormatNotification(m, a) : m \in AskedMethods, a \in Params}

RECURSIVE AskedBatches(_)
AskedBatches(n) ==
    IF n = 0 THEN {<<>>}
    ELSE LET shorter == AskedBatches(n - 1)
         IN  shorter \cup {Append(b, x) : b \in {c \in shorter : Len(c) = n - 1}, x \in Asked}

AskedInputs == {Single(x) : x \in Asked} \cup {Array(b) : b \in AskedBatches(MaxBatch)}

\* A peer constructed without a handler (new Peer()): the transport hands over
\* requests and notifications, single and in batches, and the promises of the
\* default handler settle in any order.
NextDefault ==
    \/ \E i \in AskedInputs : Idle /\ CallWrite("server", i)
    \/ \E i \in AskedInputs : Idle /\ CallExec("server", i)
    \/ \E kj \in Running : DefaultHandlerSettles(kj[1], kj[2])
    \/ Forget

SpecDefault == Init /\ [][NextDefault]_vars

\* the ways in which a user handler completes
Outcomes ==
    {[kind |-> c, value |-> "v1", error |-> NoError] : c \in {"return", "resolve"}}
    \cup {[kind |-> c, value |-> Undefined, error |-> e] :
              c \in {"throw", "reject"}, e \in HandlerErrors}

Failures == {o \in Outcomes : o.kind \in {"throw", "reject"}}

\* A peer with a handler that returns, throws, or returns a promise: requests
\* and notifications are handed over, single and in batches.
NextHandler ==
    \/ \E i \in AskedInputs : Idle /\ CallWrite("server", i)
    \/ \E i \in AskedInputs : Idle /\ CallExec("server", i)
    \/ \E kj \in Running, o \in Outcomes : HandlerCompletes(kj[1], kj[2], o)
    \/ Forget

SpecHandler == Init /\ [][NextHandler]_vars

\* the data given to exec
Contexts == {"c1", "c2"}

\* A peer whose exec is called with data: requests and notifications, single
\* and in batches, and the handler returns for them in any order.
NextContext ==
    \/ \E i \in AskedInputs, c \in Contexts : Idle /\ CallExecWith("server", i, c)
    \/ \E i \in AskedInputs : Idle /\ CallWrite("server", i)
    \/ \E kj \in Running : HandlerReturns(kj[1], kj[2], "v1")
    \/ Forget

SpecContext == Init /\ [][NextContext]_vars

\* Two peers piped into each other: client.pipe(server).pipe(client)
InitPiped ==
    /\ nextRequestId = 0
    /\ deferreds = [p \in Peers |-> <<>>]
    /\ futures = <<>>
    /\ execs = <<>>
    /\ out = Quiet
    /\ errors = Quiet
    /\ pipes = [p \in Peers |-> <<CHOOSE q \in Peers : q # p>>]
    /\ ended = [p \in Peers |-> 0]

\* there is room for one more unfinished call of exec
Room == Len(Live(execs)) < MaxLive

\* Two piped peers: the client sends requests and notifications to the server,
\* whose handler settles the calls in any order.
NextPiped ==
    \/ \E m \in Methods, a \in Params : Room /\ Request("client", m, a)
    \/ \E m \in Methods, a \in Params : Room /\ Notify("client", m, a)
    \/ \E kj \in Running, v \in HandlerValues : HandlerReturns(kj[1], kj[2], v)
    \/ \E kj \in Running, e \in HandlerErrors : HandlerThrows(kj[1], kj[2], e)
    \/ \E k \in 1..Len(execs) : EmitError(k)

SpecPiped == InitPiped /\ [][NextPiped]_vars

\* Two piped peers whose requester gives up: the client sends requests and
\* fails its pending requests at any time, the handler of the server settles
\* the calls in any order.
NextFail ==
    \/ \E m \in Methods, a \in Params : Room /\ Request("client", m, a)
    \/ \E r \in Reasons : FailPendingRequests("client", r)
    \/ \E kj \in Running, v \in HandlerValues : HandlerReturns(kj[1], kj[2], v)
    \/ \E kj \in Running, e \in HandlerErrors : HandlerThrows(kj[1], kj[2], e)
    \/ \E k \in 1..Len(execs) : EmitError(k)

SpecFail == InitPiped /\ [][NextFail]_vars

\* the messages that need no entry of the table: a request, a notification
\* and an Error without id
Unsolicited ==
    {FormatRequest(10, m, a) : m \in Methods, a \in Params}
    \cup {FormatNotification(m, a) : m \in Methods, a \in Params}
    \cup {FormatError(NoId, e) : e \in RemoteErrors}

RECURSIVE UnsolicitedBatches(_)
UnsolicitedBatches(n) ==
    IF n = 0 THEN {<<>>}
    ELSE LET shorter == UnsolicitedBatches(n - 1)
         IN  shorter \cup {Append(b, x) : b \in {c \in shorter : Len(c) = n - 1},
                                          x \in Unsolicited}

\* what the transport hands over: such messages, single and in batches, and
\* the replies to the requests of the peer
Deliveries ==
    {Single(x) : x \in Unsolicited \cup Replies}
    \cup {Array(b) : b \in UnsolicitedBatches(MaxBatch)}

\* A peer that requests, notifies and responds: it sends requests and
\* notifications and fails its pending requests, the transport hands over
\* messages one at a time, and the handler returns.
NextFrame ==
    \/ \E m \in Methods, a \in Params : Idle /\ Request("server", m, a)
    \/ \E m \in Methods, a \in Params : Idle /\ Notify("server", m, a)
    \/ \E r \in Reasons : Idle /\ FailPendingRequests("server", r)
    \/ \E i \in Deliveries : Idle /\ CallWrite("server", i)
    \/ \E i \in Deliveries : Idle /\ CallExec("server", i)
    \/ \E kj \in Running : HandlerReturns(kj[1], kj[2], "v1")
    \/ \E k \in 1..Len(execs) : EmitError(k)
    \/ Forget

SpecFrame == Init /\ [][NextFrame]_vars

\* A requester whose emission can fail: requests are sent, some of them throw
\* while they are emitted, the transport delivers responses and errors, and the
\* pending requests are failed at any time.
NextEmit ==
    \/ \E p \in Peers, m \in Methods, a \in Params : Request(p, m, a)
    \/ \E p \in Peers, m \in Methods, a \in Params, c \in Causes : RequestThrows(p, m, a, c)
    \/ \E p \in Peers, r \in Reasons : FailPendingRequests(p, r)
    \/ \E p \in Peers, x \in Replies : Idle /\ CallWrite(p, Single(x))
    \/ \E k \in 1..Len(execs) : EmitError(k)
    \/ Forget

SpecEmit == Init /\ [][NextEmit]_vars

\* Two peers piped into each other whose streams end: the client sends
\* requests and notifications, the handler of the server returns, and either
\* peer ends its output, at any time and any number of times.
NextEnd ==
    \/ \E m \in Methods, a \in Params : Room /\ Request("client", m, a)
    \/ \E m \in Methods, a \in Params : Room /\ Notify("client", m, a)
    \/ \E p \in Peers : End(p)
    \/ \E kj \in Running : HandlerReturns(kj[1], kj[2], "v1")

SpecEnd == InitPiped /\ [][NextEnd]_vars

\* Two peers piped into each other whose transports call end(): the client
\* sends requests, the handler of the server returns, and end() is called on
\* either peer at any time.
NextClose ==
    \/ \E m \in Methods, a \in Params : Room /\ Request("client", m, a)
    \/ \E p \in Peers : ended[p] < MaxPipes /\ CallEnd(p)
    \/ \E kj \in Running : HandlerReturns(kj[1], kj[2], "v1")

SpecClose == InitPiped /\ [][NextClose]_vars

\* one more pipe of p into q can be made
CanPipe(p, q) == p # q /\ ended[q] + Into(pipes[p], q) < MaxPipes

\* Peers that are piped and ended: pipes are made, one at a time or chained, the
\* client sends a request and notifications, the handler of the server returns,
\* and a peer ends its output at any time.
NextPipe ==
    \/ \E p, q \in Peers : CanPipe(p, q) /\ Pipe(p, q)
    \/ \E p, q \in Peers : CanPipe(p, q) /\ CanPipe(q, p) /\ PipeBoth(p, q)
    \/ \E m \in Methods, a \in Params : Idle /\ nextRequestId = 0 /\ Request("client", m, a)
    \/ \E m \in Methods, a \in Params : Room /\ Notify("client", m, a)
    \/ \E p \in Peers : pipes[p] # <<>> /\ End(p)
    \/ \E kj \in Running : HandlerReturns(kj[1], kj[2], "v1")
    \/ \E k \in 1..Len(execs) : EmitError(k)

SpecPipe == Init /\ [][NextPipe]_vars

\* the values a handler returns that a Response can carry
Encodable == {v \in HandlerValues : CanFormat(IF v = Undefined THEN Null ELSE v)}

\* the handler called for the request with id f settles
SettlesRequest(f) ==
    \E kj \in Running :
        /\ execs[kj[1]].elems[kj[2]].payload.type = "request"
        /\ execs[kj[1]].elems[kj[2]].payload.id = f
        /\ \/ \E v \in Encodable : HandlerReturns(kj[1], kj[2], v)
           \/ \E e \in HandlerErrors : HandlerThrows(kj[1], kj[2], e)

\* Two piped peers in normal operation: every result of the handler of the
\* server can be encoded, and the handler settles every request it is called for.
NextNormal ==
    \/ \E m \in Methods, a \in Params : Room /\ Request("client", m, a)
    \/ \E m \in Methods, a \in Params : Room /\ Notify("client", m, a)
    \/ \E kj \in Running, v \in Encodable : HandlerReturns(kj[1], kj[2], v)
    \/ \E kj \in Running, e \in HandlerErrors : HandlerThrows(kj[1], kj[2], e)

SpecNormal ==
    /\ InitPiped
    /\ [][NextNormal]_vars
    /\ \A f \in ReplyIds : WF_vars(SettlesRequest(f))

\* ------------------------------------------------------------------------
\* Properties of the table of pending requests
\* ------------------------------------------------------------------------

\* the error object a future is rejected with for an Error payload
ErrorOf(payload) ==
    JsonRpcError(payload.error.message, payload.error.code, payload.error.data)

\* future f was settled by the dispatch of a Response or Error payload
SettledByPayload(f) == futures[f].state # "pending" /\ futures[f].by # NoPayload

\* future f was rejected by failPendingRequests
Failed(f) == futures[f].state = "rejected" /\ futures[f].by = NoPayload

\* C1: a future settled by a payload was settled by a payload that carries the
\* id of its own request: resolved with the result of that Response, or
\* rejected with the error of that Error, in every order of delivery.
C1_SettledByOwnId ==
    \A f \in DOMAIN futures :
        SettledByPayload(f) =>
            /\ futures[f].by.id = f
            /\ futures[f].by.type \in {"response", "error"}
            /\ futures[f].by.type = "response" =>
                  futures[f].state = "resolved" /\ futures[f].value = futures[f].by.result
            /\ futures[f].by.type = "error" =>
                  futures[f].state = "rejected" /\ futures[f].error = ErrorOf(futures[f].by)

\* two requests are outstanding on one peer and the reply to the later one
\* has arrived first
C1_Witness ==
    \E f, g \in DOMAIN futures :
        /\ f < g
        /\ futures[f].peer = futures[g].peer
        /\ futures[f].state = "pending"
        /\ f \in DOMAIN deferreds[futures[f].peer]
        /\ SettledByPayload(g)

\* the payloads that call k of exec has dispatched
Dispatched(k) ==
    {execs[k].elems[j].payload : j \in 1..Len(execs[k].elems)}

\* the calls of exec made in the step
NewCalls == {execs'[k] : k \in (Len(Live(execs)) + 1)..Len(execs')}

PayloadsOf(call) == {call.elems[j].payload : j \in 1..Len(call.elems)}

IsReply(payload) == payload.type \in {"response", "error"} /\ payload.id # NoId

PendingOf(p) == {f \in DOMAIN futures : futures[f].peer = p /\ futures[f].state = "pending"}

\* C7: failPendingRequests(reason) on peer p rejects every pending future of p
\* with reason and empties the table of p; a request made on p is registered
\* under its id with a pending future, before and after such a call, and a
\* Response for the id of a pending request resolves its future with the
\* result of the Response.
C7_FailPendingRequests ==
    [][/\ \A p \in Peers, r \in Reasons :
             FailPendingRequests(p, r) =>
                 /\ deferreds'[p] = <<>>
                 /\ \A f \in PendingOf(p) :
                       /\ futures'[f].state = "rejected"
                       /\ futures'[f].value = r
                       /\ futures'[f].by = NoPayload
       /\ \A p \in Peers, m \in Methods, a \in Params :
             Request(p, m, a) =>
                 /\ nextRequestId \in DOMAIN deferreds'[p]
                 /\ futures'[nextRequestId] = NewFuture(p)
       /\ \A p \in Peers, v \in Values : \A f \in PendingOf(p) :
             (CallWrite(p, Single(FormatResponse(f, v)))
                  \/ CallExec(p, Single(FormatResponse(f, v)))) =>
                 /\ futures'[f].state = "resolved"
                 /\ futures'[f].value = v
      ]_vars

\* a request of a peer was failed, and a later request of the same peer has
\* been resolved by its Response while another failed request stays rejected
C7_Witness ==
    \E f, g \in DOMAIN futures :
        /\ f < g
        /\ futures[f].peer = futures[g].peer
        /\ Failed(f)
        /\ futures[f].value \in Reasons
        /\ futures[g].state = "resolved"
        /\ futures[g].by = FormatResponse(g, futures[g].value)
        /\ deferreds[futures[f].peer] = <<>>

\* ------------------------------------------------------------------------
\* Properties of the dispatcher
\* ------------------------------------------------------------------------

Calls == 1..Len(execs)

ElemsOf(k) == 1..Len(execs[k].elems)

IsRequest(elem) == elem.payload.type = "request"

IsNotification(elem) == elem.payload.type = "notification"

\* the handler of element j of call k settles in the step, in some way
Settles(k, j) ==
    \/ \E v \in HandlerValues : HandlerReturns(k, j, v)
    \/ \E e \in HandlerErrors : HandlerThrows(k, j, e)

\* C5: a call of exec for a Notification has called the handler and is
\* fulfilled with undefined, also once the handler has thrown or returned; no
\* element of a batch that is a Notification has an output; and neither the
\* step that dispatches a Notification nor the step in which its handler
\* settles emits a 'data' or an 'error' event.
C5_NotificationSilent ==
    /\ [](\A k \in Calls :
             /\ \A j \in ElemsOf(k) :
                   IsNotification(execs[k].elems[j]) =>
                       /\ execs[k].elems[j].hstate # None
                       /\ execs[k].elems[j].rstate = Undefined
                       /\ execs[k].elems[j].reply = NoPayload
             /\ (execs[k].input.kind = "payload" /\ IsNotification(execs[k].elems[1])) =>
                   /\ execs[k].status = "fulfilled"
                   /\ execs[k].value = NoValue)
    /\ [][/\ \A x \in Payloads :
                (x.type = "notification"
                     /\ (CallWrite("server", Single(x)) \/ CallExec("server", Single(x))))
                    => out' = Quiet /\ errors' = Quiet
          /\ \A k \in Calls :
                (execs[k].input.kind = "payload" /\ IsNotification(execs[k].elems[1])
                     /\ Settles(k, 1))
                    => out' = Quiet /\ errors' = Quiet
         ]_vars

\* write has dispatched a Notification and its handler has thrown
C5_Witness ==
    \E k \in Calls :
        /\ execs[k].viaWrite
        /\ execs[k].input.kind = "payload"
        /\ IsNotification(execs[k].elems[1])
        /\ execs[k].elems[1].hstate = "threw"
        /\ execs[k].status = "fulfilled"
        /\ out = Quiet /\ errors = Quiet

\* the places of the Request elements of call k, and how many of them are
\* among the first j elements
RequestsOf(k) == {j \in ElemsOf(k) : IsRequest(execs[k].elems[j])}

Rank(k, j) == Cardinality({i \in RequestsOf(k) : i <= j})

\* C6: when exec is fulfilled for a batch, its value is an array with one
\* output for each Request element, the output of the nth Request element at
\* the nth place, and nothing else, in whatever order the handlers settled.
C6_BatchOrder ==
    \A k \in Calls :
        (execs[k].input.kind = "array" /\ execs[k].status = "fulfilled") =>
            /\ execs[k].value.kind = "list"
            /\ Len(execs[k].value.items) = Cardinality(RequestsOf(k))
            /\ \A j \in RequestsOf(k) :
                  /\ execs[k].value.items[Rank(k, j)] = execs[k].elems[j].reply
                  /\ execs[k].value.items[Rank(k, j)].id = execs[k].elems[j].payload.id
                  /\ execs[k].value.items[Rank(k, j)].type \in {"response", "error"}

\* a batch of a request, then another request, with distinct ids, is fulfilled
\* and the handler of the later request settled first
C6_Witness ==
    \E k \in Calls : \E i, j \in RequestsOf(k) :
        /\ execs[k].input.kind = "array"
        /\ execs[k].status = "fulfilled"
        /\ i < j
        /\ execs[k].elems[i].payload.id # execs[k].elems[j].payload.id
        /\ execs[k].elems[j].nth < execs[k].elems[i].nth

\* C8: the reply to a Request whose handler threw is an Error payload with the
\* id of the request; for a MethodNotFound without data it has code -32601 and
\* the method of the request as data; for any other error it has the message,
\* code and data of the error thrown.
C8_MethodNotFoundData ==
    \A k \in Calls : \A j \in RequestsOf(k) :
        LET elem == execs[k].elems[j] IN
        elem.hstate = "threw" =>
            /\ elem.rstate = "payload"
            /\ elem.reply.type = "error"
            /\ elem.reply.id = elem.payload.id
            /\ IF elem.herror.class = "MethodNotFound" /\ elem.herror.data = Undefined
               THEN /\ elem.reply.error.code = -32601
                    /\ elem.reply.error.data = elem.payload.method
               ELSE /\ elem.reply.error.message = elem.herror.message
                    /\ elem.reply.error.code = elem.herror.code
                    /\ elem.reply.error.data = elem.herror.data

\* a handler threw a MethodNotFound without data for a request of method foo
\* and exec is fulfilled with the Error payload that names foo
C8_Witness ==
    \E k \in Calls :
        /\ execs[k].input.kind = "payload"
        /\ IsRequest(execs[k].elems[1])
        /\ execs[k].elems[1].herror = MethodNotFound(Undefined)
        /\ execs[k].status = "fulfilled"
        /\ execs[k].value.items[1].error.data = "foo"
        /\ execs[k].value.items[1].id = execs[k].elems[1].payload.id

\* the outputs in the result of call k that carry id
OutputsFor(k, id) ==
    {n \in 1..Len(execs[k].value.items) :
        /\ execs[k].value.items[n].id = id
        /\ execs[k].value.items[n].type \in {"response", "error"}}

\* C10 (as claimed): a call of exec that dispatches a Request is never
\* rejected, whatever comes with the Request in its batch, and once the
\* handlers have settled its result has exactly one Response or Error payload
\* with the id of each Request and nothing for the other elements.
C10_OneReplyPerRequest ==
    \A k \in Calls :
        RequestsOf(k) # {} =>
            /\ execs[k].status # "rejected"
            /\ execs[k].status = "fulfilled" =>
                  /\ \A j \in RequestsOf(k) :
                        Cardinality(OutputsFor(k, execs[k].elems[j].payload.id)) = 1
                  /\ Len(execs[k].value.items) = Cardinality(RequestsOf(k))

\* ------------------------------------------------------------------------
\* Properties of two piped peers
\* ------------------------------------------------------------------------

\* future f was settled by a Response or Error that carries its id
SettledByOwn(f) ==
    /\ f \in DOMAIN futures
    /\ SettledByPayload(f)
    /\ futures[f].by.id = f
    /\ futures[f].by.type \in {"response", "error"}

\* C3: in normal operation every request made is eventually settled by the
\* Response or Error that carries its id, and a settled future keeps its
\* outcome: it is settled once.
C3_EventuallySettledOnce ==
    /\ \A f \in ReplyIds : (f \in DOMAIN futures) ~> SettledByOwn(f)
    /\ [][\A f \in DOMAIN futures :
             futures[f].state # "pending" =>
                 /\ futures'[f] = futures[f]
                 /\ SettledByOwn(f)]_vars

\* every request the bound allows has been made and settled by its own reply
C3_Witness ==
    /\ nextRequestId = MaxRequests
    /\ \A f \in ReplyIds : SettledByOwn(f)

\* the calls of exec of the server for the request with id f
ServerCallsFor(f) ==
    {k \in Calls : /\ execs[k].peer = "server"
                   /\ execs[k].input.kind = "payload"
                   /\ IsRequest(execs[k].elems[1])
                   /\ execs[k].elems[1].payload.id = f}

\* C4 (as claimed): once the handler of the server has returned for a request
\* and the future of the request is resolved, the value of the future is the
\* value the handler returned.
C4_ResolvesWithReturned ==
    \A f \in DOMAIN futures : \A k \in ServerCallsFor(f) :
        (execs[k].elems[1].hstate = "returned" /\ futures[f].state = "resolved") =>
            futures[f].value = execs[k].elems[1].hvalue

\* C4 (amended): when the server has replied to a request, the future of the
\* request is settled in the same step: resolved with the value the handler
\* returned, null standing for undefined, or rejected with a JsonRpcError that
\* has the message, code and data of the Error payload.
C4_ResolvesWithResult ==
    \A f \in DOMAIN futures : \A k \in ServerCallsFor(f) :
        LET elem == execs[k].elems[1] IN
        elem.rstate = "payload" =>
            /\ elem.hstate = "returned" =>
                  /\ futures[f].state = "resolved"
                  /\ futures[f].value = IF elem.hvalue = Undefined THEN Null ELSE elem.hvalue
            /\ elem.hstate = "threw" =>
                  /\ futures[f].state = "rejected"
                  /\ futures[f].by = elem.reply
                  /\ futures[f].error.class = "JsonRpcError"
                  /\ futures[f].error.message = elem.reply.error.message
                  /\ futures[f].error.code = elem.reply.error.code
                  /\ futures[f].error.data = elem.reply.error.data

\* the handler returned a value for one request and threw for another, and
\* both futures are settled accordingly
C4_Witness ==
    \E f \in DOMAIN futures : \E k \in ServerCallsFor(f) :
        /\ execs[k].elems[1].hstate = "returned"
        /\ execs[k].elems[1].hvalue \in Values
        /\ futures[f].state = "resolved"
        /\ futures[f].value = execs[k].elems[1].hvalue
        /\ \E g \in DOMAIN futures :
              /\ futures[g].state = "rejected"
              /\ futures[g].error.code = -32601
              /\ futures[g].error.data \in Methods

\* C9: in normal operation the future of a request is pending exactly while
\* the handler of the server runs for it: the handler is called for each
\* request when the request is made, whatever other handlers run, and the
\* future is settled in the step in which its own handler settles.
C9_Independent ==
    \A f \in DOMAIN futures :
        futures[f].state = "pending" <=>
            \E k \in ServerCallsFor(f) : execs[k].elems[1].hstate = "running"

\* two requests were outstanding and the later is resolved while the handler
\* of the earlier still runs
C9_Witness ==
    \E f, g \in DOMAIN futures :
        /\ f < g
        /\ futures[f].state = "pending"
        /\ \E k \in ServerCallsFor(f) : execs[k].elems[1].hstate = "running"
        /\ futures[g].state = "resolved"
        /\ SettledByOwn(g)

\* ------------------------------------------------------------------------
\* Faults of the dispatcher
\* ------------------------------------------------------------------------

\* the ids of the replies in the chunks peer p emitted in the last step
EmittedIds(p) ==
    UNION {{out[p][n].items[i].id : i \in 1..Len(out[p][n].items)} : n \in 1..Len(out[p])}
        \ {NoId}

\* the requests of call k whose result could not be encoded
Unencodable(k) ==
    {j \in ElemsOf(k) : /\ IsRequest(execs[k].elems[j])
                        /\ execs[k].elems[j].hstate = "returned"
                        /\ ~CanFormat(execs[k].elems[j].hvalue)}

\* C11: when write made the call of exec and the result the handler returned
\* for a request cannot be encoded, the call is rejected, the peer emits no
\* chunk with a reply for the id of the request, the rejection is handed to
\* _asyncEmitError, which is due until it has run, and its run emits one
\* 'error' event on the peer: with the error of the encoding, or, in a batch,
\* with the error of the element that was rejected first.
C11_UnencodableResult ==
    /\ [](\A k \in Calls :
             (execs[k].viaWrite /\ Unencodable(k) # {}) =>
                 /\ execs[k].status = "rejected"
                 /\ \A j \in Unencodable(k) :
                       execs[k].elems[j].payload.id \notin EmittedIds(execs[k].peer)
                 /\ ~execs[k].emitted => ENABLED EmitError(k))
    /\ [][\A k \in Calls :
             (Unencodable(k) # {} /\ EmitError(k)) =>
                 /\ errors'[execs[k].peer] = <<execs[k].reason>>
                 /\ execs[k].reason.thrown \in {"EncodeError", "TypeError"}
                 /\ Len(execs[k].elems) = 1 => execs[k].reason.thrown = "EncodeError"
                 /\ out' = Quiet]_vars

\* the server has emitted the 'error' event for a request whose result cannot
\* be encoded, and the future of the client is still pending
C11_Witness ==
    \E k \in Calls :
        /\ execs[k].peer = "server"
        /\ Unencodable(k) # {}
        /\ execs[k].elems[1].hvalue = Circular
        /\ execs[k].emitted
        /\ errors["server"] = <<ThrownError("EncodeError")>>
        /\ futures[execs[k].elems[1].payload.id].state = "pending"

\* the calls of exec that the step has finished or left unfinished, in order;
\* the last one is the call made in the step, when the step made one
LastCall == execs'[Len(execs')]

\* what exec is rejected with for text that is not a message
ParseFailure == ThrownPayload(FormatError(NoId, InvalidJson))

\* C12: write of malformed text returns: the step leaves the table and the
\* futures as they are, calls no handler, emits no data and no 'error' event,
\* and leaves a rejected call of exec whose reason is an Error payload without
\* id; that reason is emitted as an 'error' event by a later step, which emits
\* no data either.
C12_MalformedWrite ==
    /\ [][\A p \in Peers :
             CallWrite(p, Malformed) =>
                 /\ deferreds' = deferreds
                 /\ futures' = futures
                 /\ out' = Quiet
                 /\ errors' = Quiet
                 /\ Len(execs') = Len(Live(execs)) + 1
                 /\ LastCall.peer = p
                 /\ LastCall.elems = <<>>
                 /\ LastCall.status = "rejected"
                 /\ ~LastCall.emitted
                 /\ LastCall.reason.thrown = "payload"
                 /\ LastCall.reason.payload.type = "error"
                 /\ LastCall.reason.payload.id = NoId]_vars
    /\ [][\A k \in Calls :
             (execs[k].input = Malformed /\ EmitError(k)) =>
                 /\ errors'[execs[k].peer] = <<ParseFailure>>
                 /\ out' = Quiet
                 /\ deferreds' = deferreds
                 /\ futures' = futures]_vars
    /\ [](\A k \in Calls :
             (execs[k].input = Malformed /\ execs[k].viaWrite) =>
                 /\ execs[k].status = "rejected"
                 /\ ~execs[k].emitted => ENABLED EmitError(k))

\* malformed text was written to a peer that has a pending request, and the
\* 'error' event has been emitted with the pending request untouched
C12_Witness ==
    \E k \in Calls :
        /\ execs[k].input = Malformed
        /\ execs[k].viaWrite
        /\ execs[k].emitted
        /\ errors[execs[k].peer] = <<ParseFailure>>
        /\ deferreds[execs[k].peer] # <<>>
        /\ \A f \in DOMAIN futures : futures[f].state = "pending"

\* payload x is a Response or Error with an id that has no entry in the table of p
Unmatched(p, x) == x \in Replies /\ x.id \notin DOMAIN deferreds[p]

\* C13: a Response or Error whose id has no entry in the table of the peer,
\* because the id was never handed out, belongs to another peer, or its entry
\* is gone: the call of write or exec returns, leaves the table and every
\* future as they are, emits nothing, and the call of exec is rejected with a
\* TypeError, which write emits as an 'error' event in a later step.  Whatever
\* came before, a Response or Error for a pending request of the peer settles
\* that request and fulfils the call of exec.
C13_UnmatchedReply ==
    /\ [][\A p \in Peers : \A x \in Replies :
             (Unmatched(p, x) /\ (CallWrite(p, Single(x)) \/ CallExec(p, Single(x)))) =>
                 /\ deferreds' = deferreds
                 /\ futures' = futures
                 /\ out' = Quiet
                 /\ errors' = Quiet
                 /\ LastCall.peer = p
                 /\ LastCall.status = "rejected"
                 /\ LastCall.reason = ThrownError("TypeError")
                 /\ LastCall.viaWrite <=> CallWrite(p, Single(x))]_vars
    /\ [][\A k \in Calls :
             (execs[k].reason = ThrownError("TypeError") /\ EmitError(k)) =>
                 /\ errors'[execs[k].peer] = <<ThrownError("TypeError")>>
                 /\ out' = Quiet
                 /\ deferreds' = deferreds
                 /\ futures' = futures]_vars
    /\ [](\A k \in Calls :
             (execs[k].reason = ThrownError("TypeError") /\ execs[k].viaWrite
                  /\ ~execs[k].emitted) => ENABLED EmitError(k))
    /\ [][\A p \in Peers : \A x \in Replies :
             (~Unmatched(p, x) /\ (CallWrite(p, Single(x)) \/ CallExec(p, Single(x)))) =>
                 /\ futures'[x.id].by = x
                 /\ futures'[x.id].state = IF x.type = "response" THEN "resolved" ELSE "rejected"
                 /\ x.id \notin DOMAIN deferreds'[p]
                 /\ \A f \in DOMAIN futures : f # x.id => futures'[f] = futures[f]
                 /\ LastCall.status = "fulfilled"
                 /\ LastCall.value = NoValue]_vars

\* a reply for a request that is already settled was written to the peer and
\* the 'error' event has been emitted, while another request of the peer is
\* still pending, with its entry in the table
C13_Witness ==
    \E k \in Calls : \E g \in DOMAIN futures :
        /\ execs[k].viaWrite
        /\ execs[k].reason = ThrownError("TypeError")
        /\ execs[k].emitted
        /\ errors[execs[k].peer] = <<ThrownError("TypeError")>>
        /\ execs[k].elems[1].payload.id \in DOMAIN futures
        /\ SettledByPayload(execs[k].elems[1].payload.id)
        /\ futures[execs[k].elems[1].payload.id].peer = execs[k].peer
        /\ futures[g].peer = execs[k].peer
        /\ futures[g].state = "pending"
        /\ g \in DOMAIN deferreds[execs[k].peer]

\* ------------------------------------------------------------------------
\* Request ids
\* ------------------------------------------------------------------------

\* the ids taken by the calls of request so far
TakenIds == DOMAIN futures

C15_DefaultHandler ==
    \A k \in Calls :
        /\ execs[k].status # "rejected"
        /\ \A j \in ElemsOf(k) :
              LET elem == execs[k].elems[j] IN
              /\ (IsRequest(elem) /\ elem.hstate # "running") =>
                     /\ elem.hstate = "threw"
                     /\ elem.rstate = "payload"
                     /\ elem.reply.type = "error"
                     /\ elem.reply.id = elem.payload.id
                     /\ elem.reply.error.code = -32601
                     /\ elem.reply.error.data = elem.payload.method
              /\ IsNotification(elem) =>
                     /\ elem.hstate \in {"running", "returned"}
                     /\ elem.rstate = Undefined
        /\ execs[k].status = "fulfilled" =>
              /\ execs[k].value.items = Results(execs[k].elems)
              /\ Len(execs[k].value.items) = Cardinality(RequestsOf(k))
              /\ (execs[k].input.kind = "payload" /\ IsNotification(execs[k].elems[1])) =>
                     execs[k].value = NoValue

\* a batch of two requests for different methods has been answered
C15_Witness ==
    \E k \in Calls :
        /\ execs[k].input.kind = "array"
        /\ execs[k].status = "fulfilled"
        /\ Len(execs[k].value.items) = 2
        /\ execs[k].value.items[1].error.data = "foo"
        /\ execs[k].value.items[2].error.data = "bar"
        /\ execs[k].value.items[1].id # execs[k].value.items[2].id

\* ------------------------------------------------------------------------
\* pipe
\* ------------------------------------------------------------------------

\* the calls of exec made in the step, in the order in which they were made
MadeCalls == SubSeq(execs', Len(Live(execs)) + 1, Len(execs'))

\* the calls of write that the listeners of the pipes of p make for the chunks
\* p emitted in the step: chunk by chunk, each to the targets in their order
Forwarded(p) ==
    [n \in 1..(Len(out'[p]) * Len(pipes[p])) |->
        [target |-> pipes[p][((n - 1) % Len(pipes[p])) + 1],
         chunk  |-> out'[p][((n - 1) \div Len(pipes[p])) + 1]]]

\* C16: p.pipe(q) subscribes q behind the targets that are subscribed and
\* returns q, so that p.pipe(q).pipe(p) also pipes q into p; every chunk p
\* emits is written once to the target of every pipe of p, in the order in
\* which the chunks are emitted, and to nothing else; when p ends, end() is
\* called once on the target of every pipe of p, nothing is written, and p
\* has no pipe left, so that a chunk p emits afterwards is not written.
C16_Pipe ==
    /\ [][\A p, q \in Peers :
             /\ Pipe(p, q) => pipes' = [pipes EXCEPT ![p] = Append(@, q)]
             /\ (p # q /\ PipeBoth(p, q)) =>
                    pipes' = [pipes EXCEPT ![p] = Append(@, q), ![q] = Append(@, p)]]_vars
    /\ [][\A p \in Peers :
             out'[p] # <<>> =>
                 /\ Len(MadeCalls) = Len(Forwarded(p))
                 /\ \A n \in 1..Len(MadeCalls) :
                       /\ MadeCalls[n].viaWrite
                       /\ MadeCalls[n].peer = Forwarded(p)[n].target
                       /\ MadeCalls[n].input = StringOf(Forwarded(p)[n].chunk)
                 /\ pipes' = pipes
                 /\ ended' = ended]_vars
    /\ [][\A p \in Peers :
             End(p) =>
                 /\ \A q \in Peers : ended'[q] = ended[q] + Into(pipes[p], q)
                 /\ pipes'[p] = <<>>
                 /\ \A q \in Peers \ {p} : pipes'[q] = pipes[q]
                 /\ MadeCalls = <<>>
                 /\ out' = Quiet]_vars
    /\ [][out' = Quiet => MadeCalls = <<>>]_vars

\* the client was piped into the server and has ended: end() was called once
\* on the server, and the chunk the client has emitted since is written to
\* no peer
C16_Witness ==
    /\ ended["server"] = 1
    /\ ended["client"] = 0
    /\ pipes["client"] = <<>>
    /\ out["client"] # <<>>
    /\ execs = <<>>

\* ------------------------------------------------------------------------
\* The handler
\* ------------------------------------------------------------------------

\* the handler was called for the element
Handled(elem) == elem.hstate # None

\* C17: the handler is called for every Request and Notification of a call of
\* exec, single or element of a batch, with the data the call of exec was
\* given as second argument; a call made by write was given none.
C17_ContextData ==
    \A k \in Calls :
        /\ \A j \in ElemsOf(k) :
              (IsRequest(execs[k].elems[j]) \/ IsNotification(execs[k].elems[j])) =>
                  /\ Handled(execs[k].elems[j])
                  /\ execs[k].elems[j].hdata = execs[k].data
        /\ execs[k].viaWrite => execs[k].data = Undefined

\* exec was called with data for a batch of a request and a notification, and
\* the handler was called with the data for both
C17_Witness ==
    \E k \in Calls :
        /\ execs[k].data \in Contexts
        /\ Len(execs[k].elems) = 2
        /\ IsRequest(execs[k].elems[1])
        /\ IsNotification(execs[k].elems[2])
        /\ \A j \in 1..2 : execs[k].elems[j].hdata = execs[k].data
        /\ execs[k].status = "fulfilled"

\* ------------------------------------------------------------------------
\* request
\* ------------------------------------------------------------------------

\* C18: when a listener answers a request during its emission, the Response
\* or Error it writes finds the entry of the request: the call of exec is
\* fulfilled, the future of the request is settled by the answer and the
\* entry is gone when request returns; the request was emitted, and no other
\* future has changed.
C18_RegisteredBeforeEmitted ==
    [][\A p \in Peers, m \in Methods, a \in Params : \A x \in Answers(nextRequestId) :
          RequestAnswered(p, m, a, x) =>
              /\ out'[p] = <<Single(FormatRequest(nextRequestId, m, a))>>
              /\ LastCall.input = Single(x)
              /\ LastCall.status = "fulfilled"
              /\ futures'[nextRequestId].by = x
              /\ futures'[nextRequestId].state =
                     IF x.type = "response" THEN "resolved" ELSE "rejected"
              /\ x.type = "response" => futures'[nextRequestId].value = x.result
              /\ x.type = "error" => futures'[nextRequestId].error = ErrorOf(x)
              /\ nextRequestId \notin DOMAIN deferreds'[p]
              /\ deferreds' = deferreds
              /\ \A f \in DOMAIN futures : futures'[f] = futures[f]
              /\ errors' = Quiet
      ]_vars

\* a request was answered while it was emitted: its future is resolved with
\* the result of the Response written by the listener
C18_Witness ==
    \E f \in DOMAIN futures : \E k \in Calls :
        /\ futures[f].state = "resolved"
        /\ futures[f].by = FormatResponse(f, futures[f].value)
        /\ \E m \in Methods, a \in Params :
              out[futures[f].peer] = <<Single(FormatRequest(f, m, a))>>
        /\ execs[k].viaWrite
        /\ execs[k].peer = futures[f].peer
        /\ execs[k].input = Single(futures[f].by)
        /\ execs[k].status = "fulfilled"

\* C19: a call of exec dispatches every element of its input, and calls the
\* handler once for each Request and each Notification among them, and not at
\* all for a Response, an Error or an Error without id; for text that is not
\* a message nothing is dispatched and the handler is not called.
C19_HandlerOncePerMessage ==
    \A k \in Calls :
        /\ Len(execs[k].elems) = Len(execs[k].input.items)
        /\ execs[k].input = Malformed => execs[k].elems = <<>>
        /\ \A j \in ElemsOf(k) :
              LET elem == execs[k].elems[j] IN
              /\ elem.payload = execs[k].input.items[j]
              /\ (IsRequest(elem) \/ IsNotification(elem)) =>
                     elem.hcalls = 1 /\ Handled(elem)
              /\ elem.payload.type \in {"response", "error"} =>
                     elem.hcalls = 0 /\ ~Handled(elem)

\* a batch of a request and a reply has been dispatched: the handler was called
\* for the request only, and has returned
C19_Witness ==
    \E k \in Calls :
        /\ Len(execs[k].elems) = 2
        /\ IsRequest(execs[k].elems[1])
        /\ execs[k].elems[1].hcalls = 1
        /\ execs[k].elems[1].hstate = "returned"
        /\ execs[k].elems[2].payload.type \in {"response", "error"}
        /\ execs[k].elems[2].hcalls = 0

C21_NullResult ==
    \A k \in Calls : \A j \in RequestsOf(k) :
        LET elem == execs[k].elems[j] IN
        /\ elem.rstate # Undefined
        /\ elem.hstate = "running" <=> elem.rstate = "waiting"
        /\ (elem.hstate = "returned" /\ elem.hvalue = Undefined) =>
               /\ elem.rstate = "payload"
               /\ elem.reply = FormatResponse(elem.payload.id, Null)
               /\ elem.reply.result # Undefined
        /\ (execs[k].input.kind = "payload" /\ execs[k].status = "fulfilled") =>
               /\ execs[k].value # NoValue
               /\ execs[k].value = Single(elem.reply)
               /\ elem.reply.id = elem.payload.id

\* write has dispatched a Request, the handler has returned undefined, and the
\* peer has emitted the Response with the result null
C21_Witness ==
    \E k \in Calls :
        /\ execs[k].viaWrite
        /\ execs[k].input.kind = "payload"
        /\ IsRequest(execs[k].elems[1])
        /\ execs[k].elems[1].hstate = "returned"
        /\ execs[k].elems[1].hvalue = Undefined
        /\ execs[k].status = "fulfilled"
        /\ out[execs[k].peer] =
               <<Single(FormatResponse(execs[k].elems[1].payload.id, Null))>>

\* ------------------------------------------------------------------------
\* Batches
\* ------------------------------------------------------------------------

\* the Request elements of call k whose handler has not settled
Unsettled(k) == {j \in RequestsOf(k) : execs[k].elems[j].hstate = "running"}

\* C22: the step that dispatches a batch calls the handler of every Request
\* and Notification element, and none of them has settled when the step ends;
\* while the handler of a Request element of a batch is unsettled the call of
\* exec is not fulfilled and the peer has emitted no data; and when the last
\* of them settles for a call made by write, the peer emits the result, once.
C22_FanOutThenJoin ==
    /\ [][\A n \in 1..Len(MadeCalls) :
             MadeCalls[n].input.kind = "array" =>
                 \A j \in 1..Len(MadeCalls[n].elems) :
                     MadeCalls[n].elems[j].payload.type \in {"request", "notification"} =>
                         /\ MadeCalls[n].elems[j].hstate = "running"
                         /\ MadeCalls[n].elems[j].hcalls = 1]_vars
    /\ [](\A k \in Calls :
             (execs[k].input.kind = "array" /\ Unsettled(k) # {}) =>
                 /\ execs[k].status # "fulfilled"
                 /\ execs[k].value = NoValue
                 /\ out[execs[k].peer] = <<>>)
    /\ [][\A k \in Calls :
             (/\ execs[k].input.kind = "array"
              /\ execs[k].viaWrite
              /\ execs[k].status = "pending"
              /\ Cardinality(Unsettled(k)) = 1
              /\ \E j \in Unsettled(k) : Settles(k, j)) =>
                 \/ /\ execs'[LiveIndex(k)].status = "fulfilled"
                    /\ out'[execs[k].peer] = <<execs'[LiveIndex(k)].value>>
                 \/ /\ execs'[LiveIndex(k)].status = "rejected"
                    /\ out' = Quiet]_vars

\* write has dispatched a batch of two requests; the handler of the second has
\* returned, the handler of the first still runs, and nothing has been emitted
C22_Witness ==
    \E k \in Calls :
        /\ execs[k].viaWrite
        /\ execs[k].input.kind = "array"
        /\ Len(execs[k].elems) = 2
        /\ IsRequest(execs[k].elems[1])
        /\ IsRequest(execs[k].elems[2])
        /\ execs[k].elems[1].hstate = "running"
        /\ execs[k].elems[2].hstate = "returned"
        /\ execs[k].elems[2].rstate = "payload"
        /\ execs[k].status = "pending"
        /\ out = Quiet

\* ------------------------------------------------------------------------
\* Requests that were failed
\* ------------------------------------------------------------------------

\* the reply to a request that was failed has reached the requester
LateReplies ==
    {k \in Calls : /\ execs[k].peer = "client"
                   /\ Len(execs[k].elems) = 1
                   /\ IsReply(execs[k].elems[1].payload)
                   /\ execs[k].elems[1].payload.id \in DOMAIN futures
                   /\ Failed(execs[k].elems[1].payload.id)}

\* C23: failPendingRequests leaves the handlers of the server running for the
\* requests it fails.  When such a handler settles, the server replies as to
\* any request; the step in which the Response or Error is written to the
\* client changes no future, so the failed future keeps its rejection with
\* the reason and no other request is settled, and leaves the table of the
\* client as it was; the call of exec for the reply is rejected.
C23_FailedStaysFailed ==
    /\ [][\A r \in Reasons : FailPendingRequests("client", r) => execs' = Live(execs)]_vars
    /\ [](\A f \in DOMAIN futures : \A k \in ServerCallsFor(f) :
             (Failed(f) /\ execs[k].elems[1].hstate = "running") => ENABLED Settles(k, 1))
    /\ [][\A f \in DOMAIN futures : \A k \in ServerCallsFor(f) :
             (Failed(f) /\ Settles(k, 1)) =>
                 /\ futures' = futures
                 /\ deferreds' = deferreds
                 /\ out'["server"] # <<>> =>
                       /\ out'["server"][1].items[1].id = f
                       /\ LastCall.peer = "client"
                       /\ LastCall.input = out'["server"][1]
                       /\ LastCall.status = "rejected"
                       /\ LastCall.reason = ThrownError("TypeError")]_vars
    /\ [](\A f \in DOMAIN futures :
             Failed(f) => futures[f].value \in Reasons /\ f \notin DOMAIN deferreds["client"])
    /\ [][\A f \in DOMAIN futures : Failed(f) => futures'[f] = futures[f]]_vars

\* the Response to a failed request has reached the client, whose later
\* request is still pending with its entry in the table
C23_Witness ==
    \E k \in LateReplies : \E g \in DOMAIN futures :
        /\ execs[k].elems[1].payload.type = "response"
        /\ execs[k].status = "rejected"
        /\ futures[execs[k].elems[1].payload.id].value \in Reasons
        /\ g > execs[k].elems[1].payload.id
        /\ futures[g].state = "pending"
        /\ DOMAIN deferreds["client"] = {g}

\* ------------------------------------------------------------------------
\* What changes the table
\* ------------------------------------------------------------------------

\* the step has dispatched, on peer p, a Response or Error for an id that had
\* an entry in the table of p
MatchedReply(p) ==
    \E n \in 1..Len(MadeCalls) : \E j \in 1..Len(MadeCalls[n].elems) :
        /\ MadeCalls[n].peer = p
        /\ IsReply(MadeCalls[n].elems[j].payload)
        /\ MadeCalls[n].elems[j].payload.id \in DOMAIN deferreds[p]

\* C24: a step that changes the table of a peer is a call of request or of
\* failPendingRequests on the peer, or has dispatched a Response or Error for
\* an id in the table; notify emits one chunk, the Notification, and leaves
\* tables and futures as they are; so do the dispatch of a Request, of a
\* Notification and of an Error without id, single or in a batch, and the
\* step in which a handler settles.
C24_TableFrame ==
    /\ [][\A p \in Peers :
             deferreds'[p] # deferreds[p] =>
                 \/ \E m \in Methods, a \in Params : Request(p, m, a)
                 \/ \E r \in Reasons : FailPendingRequests(p, r)
                 \/ MatchedReply(p)]_vars
    /\ [][\A p \in Peers, m \in Methods, a \in Params :
             Notify(p, m, a) =>
                 /\ out'[p] = <<Single(FormatNotification(m, a))>>
                 /\ \A q \in Peers \ {p} : out'[q] = <<>>
                 /\ deferreds' = deferreds
                 /\ futures' = futures
                 /\ nextRequestId' = nextRequestId]_vars
    /\ [][\A n \in 1..Len(MadeCalls) :
             (\A j \in 1..Len(MadeCalls[n].elems) :
                  MadeCalls[n].elems[j].payload \in Unsolicited) =>
                 /\ deferreds' = deferreds
                 /\ futures' = futures]_vars
    /\ [][\A k \in Calls : \A j \in 1..MaxBatch :
             (j \in ElemsOf(k) /\ HandlerReturns(k, j, "v1")) =>
                 /\ deferreds' = deferreds
                 /\ futures' = futures]_vars

\* with every request the bound allows pending, the peer has dispatched a
\* batch of a Request and an Error without id, and replied to the Request
C24_Witness ==
    \E k \in Calls :
        /\ Cardinality(DOMAIN deferreds["server"]) = MaxRequests
        /\ \A f \in DOMAIN futures : futures[f].state = "pending"
        /\ execs[k].input.kind = "array"
        /\ Len(execs[k].elems) = 2
        /\ IsRequest(execs[k].elems[1])
        /\ execs[k].elems[2].payload.type = "error"
        /\ execs[k].elems[2].payload.id = NoId
        /\ execs[k].status = "fulfilled"

\* ------------------------------------------------------------------------
\* The table and the futures
\* ------------------------------------------------------------------------

\* C25 (as claimed): the ids in the table of a peer are the ids of the
\* requests of the peer whose futures are pending, in every reachable state,
\* also after a request whose emission threw: its future is rejected and its
\* id is not in the table.
C25_TableIsPending ==
    \A p \in Peers : DOMAIN deferreds[p] = PendingOf(p)

\* ------------------------------------------------------------------------
\* Batches without requests
\* ------------------------------------------------------------------------

\* the calls of exec made by write for a batch that has no Request element
WithoutRequest ==
    {k \in Calls : /\ execs[k].viaWrite
                   /\ execs[k].input.kind = "array"
                   /\ RequestsOf(k) = {}}

\* C26 (as claimed): the peer emits no 'data' event for a batch without
\* Request element that was written to it, neither in the step of the call of
\* write nor while the handlers of its notifications settle.
C26_SilentBatch ==
    \A k \in WithoutRequest : out[execs[k].peer] = <<>>

\* ------------------------------------------------------------------------
\* The end of the stream
\* ------------------------------------------------------------------------

\* the peer that p is wired with by a.pipe(b).pipe(a)
Other(p) == CHOOSE q \in Peers : q # p

\* C27: for two peers wired with a.pipe(b).pipe(a), the step in which a ends
\* while its pipe is subscribed calls b.end() once and removes the listeners
\* of the pipe of a; it calls end() on no other peer, leaves the pipe of b
\* into a subscribed, writes nothing and emits nothing; no other step calls
\* end(), and a peer that ends again calls nothing: end() is called at most
\* once on each peer, and on b only when a has ended.
C27_EndTerminates ==
    /\ [][\A p \in Peers :
             (End(p) /\ pipes[p] # <<>>) =>
                 /\ ended'[Other(p)] = ended[Other(p)] + 1
                 /\ ended'[p] = ended[p]
                 /\ pipes'[p] = <<>>
                 /\ pipes'[Other(p)] = pipes[Other(p)]
                 /\ MadeCalls = <<>>
                 /\ out' = Quiet]_vars
    /\ [][\A p \in Peers : (End(p) /\ pipes[p] = <<>>) => (ended' = ended /\ pipes' = pipes)]_vars
    /\ [][ended' # ended => \E p \in Peers : End(p)]_vars
    /\ [](\A p \in Peers :
             /\ ended[p] <= 1
             /\ ended[Other(p)] = 1 <=> pipes[p] = <<>>
             /\ ended[Other(p)] = 0 <=> pipes[p] = <<Other(p)>>)

\* the client has ended and has emitted a chunk since, which was written to
\* no peer: end() was called on the server and not on the client, whose
\* chunks the server still writes to it
C27_Witness ==
    /\ ended = [p \in Peers |-> IF p = "server" THEN 1 ELSE 0]
    /\ pipes = [p \in Peers |-> IF p = "server" THEN <<"client">> ELSE <<>>]
    /\ out["client"] # <<>>
    /\ execs = <<>>

\* C28: a call of end() without data changes no table and no future, emits
\* no 'data' and no 'error' event, makes no call of exec, and emits no 'end'
\* event: the pipes of the peer stay subscribed and end() is called on no
\* other peer.  After end() was called on a peer, the Response to a pending
\* request of the peer still resolves the future of the request and removes
\* its entry.
C28_EndWithoutData ==
    /\ [][\A p \in Peers :
             CallEnd(p) =>
                 /\ deferreds' = deferreds
                 /\ futures' = futures
                 /\ out' = Quiet
                 /\ errors' = Quiet
                 /\ MadeCalls = <<>>
                 /\ execs' = Live(execs)
                 /\ pipes' = pipes
                 /\ ended'[Other(p)] = ended[Other(p)]]_vars
    /\ [][\A f \in DOMAIN futures : \A k \in ServerCallsFor(f) :
             (/\ ended[futures[f].peer] > 0
              /\ futures[f].state = "pending"
              /\ HandlerReturns(k, 1, "v1")) =>
                 /\ futures'[f].state = "resolved"
                 /\ futures'[f].value = "v1"
                 /\ futures'[f].by = FormatResponse(f, "v1")
                 /\ f \notin DOMAIN deferreds'[futures[f].peer]]_vars
    /\ [](\A f \in DOMAIN futures :
             futures[f].state = "pending" <=> f \in DOMAIN deferreds[futures[f].peer])

\* end() was called on the client as often as the bound allows, and the server
\* has emitted since the Response that resolved a request of the client
C28_Witness ==
    \E f \in DOMAIN futures :
        /\ ended[futures[f].peer] = MaxPipes
        /\ out["server"] = <<Single(FormatResponse(f, "v1"))>>
        /\ futures[f].state = "resolved"
        /\ futures[f].value = "v1"
        /\ f \notin DOMAIN deferreds[futures[f].peer]

====
